---- MODULE Spec2Model ----
(***************************************************************************)
(* Negative-news screening pipeline (flipzen/src/agent).                   *)
(*                                                                         *)
(* The model follows graph.py: invoke_negative_news_check stores the       *)
(* request in the module-level slot _last_input_data, runs the linear      *)
(* graph initialize -> entity_resolution -> query_generation -> search ->  *)
(* scraping -> chunking -> analyzer -> formatting and extracts the output. *)
(* The collaborators (completion service, search provider, fetcher) are    *)
(* nondeterministic: each call returns one of a small set of responses or  *)
(* raises.                                                                 *)
(*                                                                         *)
(* Conventions: an Optional value is a sequence of length <= 1 (None is    *)
(* <<>>, a present value x is <<x>>); risk scores are counted in tenths    *)
(* (9.8 is 98); a text returned by the completion service is described by  *)
(* what json.loads makes of the three substrings safe_extract_json tries.  *)
(***************************************************************************)
EXTENDS Integers, Sequences, FiniteSets, TLC

VARIABLES
    openaiEnv,   \* the OPENAI_API_KEY environment variable of the process
    bingKey,     \* whether BING_SEARCH_API_KEY is set
    lastInput,   \* graph.py:596 _last_input_data
    pc,          \* pc[i]: where invocation i stands
    req,         \* req[i]: the input_data handed to invoke_negative_news_check
    st,          \* st[i]: the NegativeNewsState threaded through the nodes
    ret,         \* ret[i]: what invoke_negative_news_check returned
    unit         \* a function of agent.nodes called on its own: the
                 \* arguments of the call and what it returned

vars == <<openaiEnv, bingKey, lastInput, pc, req, st, ret, unit>>

--------------------------------------------------------------------------
(* Bounds *)

NumInvocations == 2

Invocations == 1..NumInvocations

--------------------------------------------------------------------------
(* Optional values *)

None == <<>>

Some(x) == <<x>>

IsNone(o) == o = <<>>

Get(o) == o[1]

--------------------------------------------------------------------------
(* Requests. A request is a dict (possibly empty, possibly without a name), *)
(* an object whose conversion raises, or something that is neither a dict   *)
(* nor an object with a name.                                               *)

NoName == ""

Names == {"Jane Smith", "Elon Musk"}

DictRequest(n) == [kind |-> "dict", name |-> n]

EmptyDict == [kind |-> "dict", name |-> NoName]

Malformed == [kind |-> "malformed", name |-> NoName]

OtherInput == [kind |-> "other", name |-> NoName]

Requests == {DictRequest(n) : n \in Names} \cup {EmptyDict, Malformed, OtherInput}

\* Python truthiness of a request: only the empty dict is falsy.
Truthy(r) == ~(r.kind = "dict" /\ r.name = NoName)

--------------------------------------------------------------------------
(* Environment: which completion client get_openai_client hands out.       *)

OpenAIEnvs == {"unset", "dummy", "real", "empty"}

\* utils.py get_openai_client: the dummy key (also the default of an unset
\* variable, configuration.py:13) gives the MockOpenAIClient, an empty key
\* raises ValueError, any other key gives the live client.
get_openai_client(env) ==
    CASE env \in {"unset", "dummy"} -> "mock"
      [] env = "empty" -> "raise"
      [] OTHER -> "live"

\* os.getenv("OPENAI_API_KEY") == "dummy-api-key-for-testing-only"
EnvIsDummy(env) == env = "dummy"

--------------------------------------------------------------------------
(* JSON values and completion texts.                                       *)
(* A value is what json.loads returns for a candidate substring: "invalid" *)
(* (JSONDecodeError), "absent" (the pattern does not match), a record or a *)
(* value that is no record (list, number, string, null). The fields of a   *)
(* record that the stages read are kept in f.                              *)

NoFields ==
    [full_name |-> "absent", description |-> FALSE,
     web |-> <<>>, news |-> <<>>, findings |-> None,
     summary |-> FALSE, key_concerns |-> FALSE, recommendations |-> FALSE]

Invalid == [t |-> "invalid", empty |-> TRUE, f |-> NoFields]

Absent == [t |-> "absent", empty |-> TRUE, f |-> NoFields]

EmptyRecord == [t |-> "record", empty |-> TRUE, f |-> NoFields]

Record(f) == [t |-> "record", empty |-> FALSE, f |-> f]

NonRecord == [t |-> "nonrecord", empty |-> FALSE, f |-> NoFields]

EmptyList == [t |-> "nonrecord", empty |-> TRUE, f |-> NoFields]

Parsed(v) == v.t \in {"record", "nonrecord"}

\* Python truthiness of a parsed value
TruthyVal(v) == ~v.empty

\* A text: what json.loads makes of the whole text, of the inner text of the
\* first fenced block and of the first brace-delimited match; whether the text
\* holds the word "negative"; and what the line heuristic of generate_queries
\* reads from its lines.
Text(whole, fenced, brace) ==
    [whole |-> whole, fenced |-> fenced, brace |-> brace,
     negative |-> FALSE, lineWeb |-> <<>>, lineNews |-> <<>>]

Direct(v) == Text(v, Absent, Absent)

Fenced(v) == Text(Invalid, v, Absent)

Braced(v) == Text(Invalid, Absent, v)

Garbage == Text(Invalid, Absent, Absent)

\* A variant without the direct parse of lines 405-409.
safe_extract_json_nodirect(text) ==
    IF Parsed(text.fenced) THEN text.fenced
    ELSE IF Parsed(text.brace) THEN text.brace
    ELSE EmptyRecord

\* utils.py safe_extract_json
safe_extract_json(text) ==
    IF Parsed(text.whole) THEN text.whole
    ELSE IF Parsed(text.fenced) THEN text.fenced
    ELSE IF Parsed(text.brace) THEN text.brace
    ELSE EmptyRecord

--------------------------------------------------------------------------
(* Texts as sequences of tokens, JSON values as trees: what json.dumps,    *)
(* json.loads and the two patterns of safe_extract_json do.                *)

Tok(c, s) == [c |-> c, s |-> s]

Punct(s) == Tok("punct", s)

\* the three backticks that open and close a fenced block
Fence == Tok("fence", "fence")

\* a string, a number or null
JScalar(k, s) == [k |-> k, s |-> s, items |-> <<>>]

JArr(items) == [k |-> "arr", s |-> "", items |-> items]

Member(key, value) == [key |-> key, value |-> value]

\* an object: its members in the order of insertion
JObj(members) == [k |-> "obj", s |-> "", items |-> members]

\* json.dumps
RECURSIVE json_dumps(_)
RECURSIVE DumpItems(_, _)
json_dumps(v) ==
    CASE v.k = "arr" -> <<Punct("[")>> \o DumpItems(v.items, FALSE) \o <<Punct("]")>>
      [] v.k = "obj" -> <<Punct("{")>> \o DumpItems(v.items, TRUE) \o <<Punct("}")>>
      [] OTHER -> <<Tok(v.k, v.s)>>

\* the items of an array, or the members of an object, separated by commas
DumpItems(items, members) ==
    IF items = <<>> THEN <<>>
    ELSE LET first == IF members
                      THEN <<Tok("str", Head(items).key), Punct(":")>>
                           \o json_dumps(Head(items).value)
                      ELSE json_dumps(Head(items))
         IN first \o (IF Len(items) > 1 THEN <<Punct(",")>> ELSE <<>>)
                  \o DumpItems(Tail(items), members)

\* the decoder does not read a value at a position
Failed == [ok |-> FALSE, v |-> JScalar("null", "null"), next |-> 0]

\* the decoder has read the value v, which ends before the position next
Read(v, next) == [ok |-> TRUE, v |-> v, next |-> next]

At(ts, i) == IF i \in 1..Len(ts) THEN ts[i] ELSE Tok("end", "")

\* a dict: a repeated key keeps its place and takes the last value
Put(members, key, value) ==
    IF \E k \in 1..Len(members) : members[k].key = key
    THEN [k \in 1..Len(members) |->
             IF members[k].key = key THEN Member(key, value) ELSE members[k]]
    ELSE Append(members, Member(key, value))

\* the JSON decoder: the value that starts at the position i
RECURSIVE ParseValue(_, _)
RECURSIVE ParseItems(_, _, _)
RECURSIVE ParseMembers(_, _, _)
ParseValue(ts, i) ==
    LET t == At(ts, i) IN
    CASE t.c \in {"str", "num", "null"} -> Read(JScalar(t.c, t.s), i + 1)
      [] t = Punct("[") -> IF At(ts, i + 1) = Punct("]")
                         THEN Read(JArr(<<>>), i + 2)
                         ELSE ParseItems(ts, i + 1, <<>>)
      [] t = Punct("{") -> IF At(ts, i + 1) = Punct("}")
                       THEN Read(JObj(<<>>), i + 2)
                       ELSE ParseMembers(ts, i + 1, <<>>)
      [] OTHER -> Failed

\* an item at i, then a comma and more items, or the closing bracket
ParseItems(ts, i, items) ==
    LET item == ParseValue(ts, i) IN
    IF ~item.ok THEN Failed
    ELSE IF At(ts, item.next) = Punct(",")
    THEN ParseItems(ts, item.next + 1, Append(items, item.v))
    ELSE IF At(ts, item.next) = Punct("]")
    THEN Read(JArr(Append(items, item.v)), item.next + 1)
    ELSE Failed

\* a key, a colon and a value at i, then a comma and more members, or the
\* closing brace
ParseMembers(ts, i, members) ==
    IF At(ts, i).c # "str" \/ At(ts, i + 1) # Punct(":") THEN Failed
    ELSE LET value == ParseValue(ts, i + 2) IN
         IF ~value.ok THEN Failed
         ELSE IF At(ts, value.next) = Punct(",")
         THEN ParseMembers(ts, value.next + 1, Put(members, At(ts, i).s, value.v))
         ELSE IF At(ts, value.next) = Punct("}")
         THEN Read(JObj(Put(members, At(ts, i).s, value.v)), value.next + 1)
         ELSE Failed

\* Python truthiness of a decoded value: null and the empty containers are
\* false
Falsy(v) == v.k = "null" \/ (v.k \in {"arr", "obj"} /\ v.items = <<>>)

\* json.loads: the whole text is one value, or JSONDecodeError
json_loads(ts) ==
    LET r == ParseValue(ts, 1) IN
    IF r.ok /\ r.next = Len(ts) + 1
    THEN [t |-> IF r.v.k = "obj" THEN "record" ELSE "nonrecord",
          empty |-> Falsy(r.v), f |-> r.v]
    ELSE Invalid

\* the first position from `from` on that holds the token t, 0 if there is none
FirstAt(ts, from, t) ==
    IF \E k \in from..Len(ts) : ts[k] = t
    THEN CHOOSE k \in from..Len(ts) :
             ts[k] = t /\ \A j \in from..(k - 1) : ts[j] # t
    ELSE 0

\* utils.py:412-419: the inner text of the first fenced block, decoded
FencedBlock(ts) ==
    LET open == FirstAt(ts, 1, Fence)
        start == IF At(ts, open + 1) = Tok("word", "json") THEN open + 2 ELSE open + 1
        close == IF open = 0 THEN 0 ELSE FirstAt(ts, start, Fence)
    IN IF close = 0 THEN Absent ELSE json_loads(SubSeq(ts, start, close - 1))

\* utils.py:422-429: from the first opening brace to the first closing brace
\* after it, decoded
BraceMatch(ts) ==
    LET open == FirstAt(ts, 1, Punct("{"))
        close == IF open = 0 THEN 0 ELSE FirstAt(ts, open + 1, Punct("}"))
    IN IF close = 0 THEN Absent ELSE json_loads(SubSeq(ts, open, close))

\* what safe_extract_json sees of a text of tokens
ReadText(ts) == Text(json_loads(ts), FencedBlock(ts), BraceMatch(ts))

--------------------------------------------------------------------------
\* A completion call: it raises, or returns a text.
Raises == [raised |-> TRUE, text |-> Garbage]

Returns(text) == [raised |-> FALSE, text |-> text]

--------------------------------------------------------------------------
(* The pipeline state (graph.py NegativeNewsState)                         *)

Stages ==
    {"initialization", "entity_resolution", "query_generation", "search",
     "scraping", "chunking", "analysis", "formatting"}

NoDebug == [s \in Stages |-> "none"]

\* {**debug, stage: tag}
Mark(debug, stage, tag) == [debug EXCEPT ![stage] = tag]

OutputKeys ==
    {"entity", "queries", "search_results", "scraped_content", "content_chunks",
     "analysis", "has_negative_news", "risk_score", "summary", "report"}

\* the output dict: a key that is not set is None
NoOutput == [k \in OutputKeys |-> None]

\* A variant of the initial state whose content_chunks is the empty list
\* instead of None.
NoState_emptychunks ==
    [input |-> None, entity |-> None, debug |-> NoDebug, output |-> NoOutput,
     error |-> None, queries |-> None, search_results |-> None,
     scraped_content |-> None, content_chunks |-> Some(<<>>), analysis |-> None,
     report |-> None]

NoState ==
    [input |-> None, entity |-> None, debug |-> NoDebug, output |-> NoOutput,
     error |-> None, queries |-> None, search_results |-> None,
     scraped_content |-> None, content_chunks |-> None, analysis |-> None,
     report |-> None]

\* A summary is a fixed sentence, possibly followed by the listed findings.
Sentence(tag) == [tag |-> tag, items |-> <<>>]

--------------------------------------------------------------------------
(* graph.py initialize_state                                               *)

\* graph.py:73-75: an empty input is replaced by the module-level slot when
\* the slot holds a truthy value.
EffectiveInput(user_input, last) ==
    IF ~Truthy(user_input) /\ ~IsNone(last) /\ Truthy(Get(last))
    THEN Get(last)
    ELSE user_input

\* graph.py:79-125: the input record built from the request that is used
InputData(r) ==
    CASE r.kind = "dict" -> [name |-> IF r.name = NoName THEN "Unknown" ELSE r.name]
      [] OTHER -> [name |-> "Unknown Entity"]

initialize_state(user_input, last) ==
    LET r == EffectiveInput(user_input, last) IN
    IF r.kind = "malformed"
    THEN [NoState EXCEPT
            !.input = Some([name |-> "Unknown"]),
            !.debug = Mark(NoDebug, "initialization", "failed"),
            !.error = Some("Initialization failed")]
    ELSE [NoState EXCEPT
            !.input = Some(InputData(r)),
            !.debug = Mark(NoDebug, "initialization", "success")]

--------------------------------------------------------------------------
(* entity_resolution.py resolve_entity                                     *)

ResolvedName == "Resolved Name"

Entity(full_name, name, description) ==
    [full_name |-> full_name, name |-> name, description |-> description]

\* entity_resolution.py:141-153, also the manual record of lines 85-91
RequestEntity(name) == Entity(name, name, "request-synth")

\* entity_resolution.py:80-134 on the text the completion call returned
EntityFromText(name, text) ==
    LET entity_data == safe_extract_json(text) IN
    IF ~TruthyVal(entity_data) THEN [raised |-> FALSE, entity |-> RequestEntity(name)]
    ELSE IF entity_data.t = "nonrecord" THEN [raised |-> TRUE, entity |-> RequestEntity(name)]
    ELSE LET full_name == IF entity_data.f.full_name = "absent"
                          THEN name ELSE entity_data.f.full_name
             description == IF entity_data.f.description
                            THEN "llm-description" ELSE "No description provided"
         IN [raised |-> FALSE, entity |-> Entity(full_name, full_name, description)]

\* The result is [raised, entity]: raised when the error leaves resolve_entity
\* (get_openai_client is called outside its try block).
resolve_entity(input, client, call) ==
    IF client = "raise" THEN [raised |-> TRUE, entity |-> RequestEntity(input.name)]
    ELSE IF call.raised THEN [raised |-> FALSE, entity |-> RequestEntity(input.name)]
    ELSE [raised |-> FALSE, entity |-> EntityFromText(input.name, call.text).entity]

\* graph.py:162-205
entity_resolution_node(state, client, call) ==
    IF ~IsNone(state.error) THEN state
    ELSE LET result == resolve_entity(Get(state.input), client, call)
             fallback_entity == Entity(Get(state.input).name, NoName, NoName)
         IN IF ~result.raised
            THEN [state EXCEPT
                    !.entity = Some(result.entity),
                    !.debug = Mark(state.debug, "entity_resolution", "success"),
                    !.output = [state.output EXCEPT !.entity = Some(result.entity)]]
            ELSE [state EXCEPT
                    !.entity = Some(fallback_entity),
                    !.debug = Mark(state.debug, "entity_resolution", "failed"),
                    !.output = [state.output EXCEPT !.entity = Some(fallback_entity)]]

--------------------------------------------------------------------------
(* query_generation.py generate_queries                                    *)

Query(who, what) == [who |-> who, what |-> what]

Templates(name, whats) == [k \in 1..Len(whats) |-> Query(name, whats[k])]

\* query_generation.py:165-172
DefaultQueries(name) ==
    Templates(name, <<"scandal", "fraud", "investigation", "lawsuit",
                      "controversy", "criminal">>)

\* query_generation.py:191-197
ErrorQueries(name) ==
    Templates(name, <<"scandal", "fraud", "investigation", "lawsuit", "controversy">>)

\* graph.py:247-251
NodeFallbackQueries(name) ==
    Templates(name, <<"scandal", "controversy", "negative news">>)

QuerySet(web, news) == [web_queries |-> web, news_queries |-> news]

\* A variant without the defaults of lines 160-174.
QueriesFromText_nodefaults(name, text) ==
    LET parsed == safe_extract_json(text)
        jsonWeb == IF TruthyVal(parsed) THEN parsed.f.web ELSE <<>>
        jsonNews == IF TruthyVal(parsed) THEN parsed.f.news ELSE <<>>
        useLines == jsonWeb = <<>> /\ jsonNews = <<>>
    IN IF TruthyVal(parsed) /\ parsed.t = "nonrecord"
       THEN QuerySet(ErrorQueries(name), ErrorQueries(name))
       ELSE QuerySet(IF useLines THEN text.lineWeb ELSE jsonWeb,
                     IF useLines THEN text.lineNews ELSE jsonNews)

\* query_generation.py:104-186 on the text the completion call returned
QueriesFromText(name, text) ==
    LET parsed == safe_extract_json(text)
        jsonWeb == IF TruthyVal(parsed) THEN parsed.f.web ELSE <<>>
        jsonNews == IF TruthyVal(parsed) THEN parsed.f.news ELSE <<>>
        useLines == jsonWeb = <<>> /\ jsonNews = <<>>
        web1 == IF useLines THEN text.lineWeb ELSE jsonWeb
        news1 == IF useLines THEN text.lineNews ELSE jsonNews
        web2 == IF web1 = <<>> THEN DefaultQueries(name) ELSE web1
        news2 == IF news1 = <<>> THEN web2 ELSE news1
    IN IF TruthyVal(parsed) /\ parsed.t = "nonrecord"
       THEN QuerySet(ErrorQueries(name), ErrorQueries(name))
       ELSE QuerySet(web2, news2)

\* The result is [raised, queries]: raised when get_openai_client raises
\* (query_generation.py:26, outside the try block).
generate_queries(entity, client, call) ==
    LET name == entity.full_name IN
    IF client = "raise" THEN [raised |-> TRUE, queries |-> QuerySet(<<>>, <<>>)]
    ELSE IF call.raised
    THEN [raised |-> FALSE, queries |-> QuerySet(ErrorQueries(name), ErrorQueries(name))]
    ELSE [raised |-> FALSE, queries |-> QueriesFromText(name, call.text)]

\* graph.py:207-262
query_generation_node(state, client, call) ==
    IF ~IsNone(state.error) THEN state
    ELSE LET entity_info == IF ~IsNone(state.entity) THEN Get(state.entity)
                            ELSE Entity(Get(state.input).name, NoName, NoName)
             result == generate_queries(entity_info, client, call)
             fallback == NodeFallbackQueries(entity_info.full_name)
             queries == IF result.raised THEN QuerySet(fallback, fallback)
                        ELSE result.queries
         IN [state EXCEPT
               !.queries = Some(queries),
               !.debug = Mark(state.debug, "query_generation",
                              IF result.raised THEN "failed" ELSE "success"),
               !.output = [state.output EXCEPT !.queries = Some(queries)]]

--------------------------------------------------------------------------
(* Sequence helpers                                                        *)

Min(a, b) == IF a < b THEN a ELSE b

Take(seq, n) == SubSeq(seq, 1, Min(n, Len(seq)))

\* A value that is computed once and then used several times is bound as the
\* element of a one-element set: CHOOSE r \in {e(x) : x \in {v}} : TRUE is
\* e(v).

RECURSIVE SumTo(_, _)
SumTo(seq, n) == IF n = 0 THEN 0 ELSE SumTo(seq, n - 1) + seq[n]

SumSeq(seq) == CHOOSE sum \in {SumTo(s, Len(s)) : s \in {seq}} : TRUE

RECURSIVE FlattenTo(_, _)
FlattenTo(seqs, n) == IF n = 0 THEN <<>> ELSE FlattenTo(seqs, n - 1) \o seqs[n]

Flatten(seqs) == CHOOSE flat \in {FlattenTo(s, Len(s)) : s \in {seqs}} : TRUE

Range(seq) == {seq[k] : k \in 1..Len(seq)}

--------------------------------------------------------------------------
(* search.py call_web_search                                               *)
(* A body of text is the sequence of the lengths of its lines (a blank     *)
(* line has length 0); a URL is <<site, page>>.                            *)

TopK == 10

NoUrl == <<"", 0>>

LiveUrl(k) == <<"live", k>>

MockUrl(i, j) == <<"mock-news", 10 * i + j>>

SearchResult(url, description) == [url |-> url, description |-> description]

Snippet == <<120>>

\* utils.py mock_web_search
mock_web_search(queries, top_k) ==
    Flatten([i \in 1..Min(3, Len(queries)) |->
                [j \in 1..Min(3, top_k) |-> SearchResult(MockUrl(i, j), Snippet)]])

\* What the provider does for the k-th query: "error", or the items it returns.
Providers == {"error", "nothing", "same", "overlapping", "nourl"}

ProviderItems(prov, k) ==
    CASE prov = "same" -> <<SearchResult(LiveUrl(1), Snippet), SearchResult(LiveUrl(2), <<>>)>>
      [] prov = "overlapping" -> <<SearchResult(LiveUrl(k), Snippet), SearchResult(LiveUrl(1), <<100 + k>>)>>
      [] prov = "nourl" -> <<SearchResult(NoUrl, Snippet)>>
      [] OTHER -> <<>>

\* search.py:92-170 perform_bing_search: an error of the provider is caught
\* and gives the empty list.
perform_bing_search(prov, k) ==
    IF prov = "error" THEN <<>> ELSE ProviderItems(prov, k)

\* A variant of lines 63-69 that keeps every result.
Deduplicate_all(results, seen) == results

\* search.py:63-69: keep the first result of every URL
RECURSIVE Deduplicate(_, _)
Deduplicate(results, seen) ==
    IF results = <<>> THEN <<>>
    ELSE IF Head(results).url \in seen THEN Deduplicate(Tail(results), seen)
    ELSE <<Head(results)>> \o Deduplicate(Tail(results), seen \cup {Head(results).url})

\* search.py:16-38: the queries that are searched
SearchedQueries(web, news, entity) ==
    IF web # <<>> THEN web
    ELSE IF news # <<>> THEN news
    ELSE Templates(entity.full_name, <<"controversy", "negative news", "scandal">>)

\* search.py:12-90
call_web_search(web, news, entity, envDummy, hasBingKey, prov, top_k) ==
    LET web_queries == SearchedQueries(web, news, entity) IN
    IF envDummy \/ ~hasBingKey
    THEN mock_web_search(web_queries, top_k)
    ELSE Take(Deduplicate(Flatten([k \in 1..Len(web_queries) |->
                                      perform_bing_search(prov, k)]), {}), top_k)

\* graph.py:264-313
search_node(state, envDummy, hasBingKey, prov) ==
    IF ~IsNone(state.error) THEN state
    ELSE IF IsNone(state.queries)
    THEN [state EXCEPT
            !.search_results = Some(<<>>),
            !.debug = Mark(state.debug, "search", "failed"),
            !.error = Some("Search failed")]
    ELSE LET search_results ==
                 call_web_search(Get(state.queries).web_queries,
                                 Get(state.queries).news_queries,
                                 Get(state.entity), envDummy, hasBingKey, prov, TopK)
         IN [state EXCEPT
               !.search_results = Some(search_results),
               !.debug = Mark(state.debug, "search", "success"),
               !.output = [state.output EXCEPT !.search_results = Some(search_results)]]

--------------------------------------------------------------------------
(* content_processing.py scrape_content                                    *)

Document(url, content) == [url |-> url, content |-> content]

\* utils.py mock_scrape_url: three short paragraphs separated by blank lines
MockBody == <<73, 0, 87, 81, 0, 81, 26>>

ShortBody == <<100, 100>>

LongBody == <<900, 900, 900, 100>>

\* What the fetcher does for the k-th result: "fail", or the text it extracts
\* ("long" and "mixed": the first page is a long one, the others are short).
Fetchers == {"fail", "empty", "short", "long", "mixed"}

Fetched(fetcher, k) ==
    CASE fetcher = "empty" -> <<>>
      [] fetcher = "short" -> ShortBody
      [] OTHER -> IF k = 1 THEN LongBody ELSE ShortBody

FetchFails(fetcher, k) == fetcher = "fail" \/ (fetcher = "mixed" /\ k = 2)

\* content_processing.py:44-55
RECURSIVE MockScrape(_)
MockScrape(results) ==
    IF results = <<>> THEN <<>>
    ELSE IF Head(results).url = NoUrl THEN MockScrape(Tail(results))
    ELSE <<Document(Head(results).url, MockBody)>> \o MockScrape(Tail(results))

\* content_processing.py:70-146
RECURSIVE LiveScrape(_, _, _)
LiveScrape(results, k, fetcher) ==
    IF k > Len(results) THEN <<>>
    ELSE IF results[k].url = NoUrl THEN LiveScrape(results, k + 1, fetcher)
    ELSE IF FetchFails(fetcher, k)
    THEN <<Document(results[k].url, results[k].description)>>
         \o LiveScrape(results, k + 1, fetcher)
    ELSE <<Document(results[k].url, Fetched(fetcher, k))>>
         \o LiveScrape(results, k + 1, fetcher)

\* content_processing.py:21-159
scrape_content(search_results, envDummy, fetcher) ==
    IF envDummy THEN MockScrape(Take(search_results, 5))
    ELSE LiveScrape(search_results, 1, fetcher)

\* graph.py:315-357
scraping_node(state, envDummy, fetcher) ==
    IF ~IsNone(state.error) THEN state
    ELSE IF IsNone(state.search_results) \/ Get(state.search_results) = <<>>
    THEN [state EXCEPT
            !.scraped_content = Some(<<>>),
            !.debug = Mark(state.debug, "scraping", "failed")]
    ELSE LET scraped_content == scrape_content(Get(state.search_results), envDummy, fetcher)
         IN [state EXCEPT
               !.scraped_content = Some(scraped_content),
               !.debug = Mark(state.debug, "scraping", "success"),
               !.output = [state.output EXCEPT !.scraped_content = Some(scraped_content)]]

--------------------------------------------------------------------------
(* content_processing.py chunk_content                                     *)
(* A chunk keeps the lines that follow its metadata header.                *)

ChunkSize == 2000

Overlap == 200

Chunk(url, lines) == [url |-> url, lines |-> lines]

\* len(content): the lines and the newlines between them
ContentLength(content) ==
    IF content = <<>> THEN 0 ELSE SumSeq(content) + Len(content) - 1

\* content_processing.py:207 (a line of white space counts as a blank line)
Paragraphs(content) == SelectSeq(content, LAMBDA n : n > 0)

\* A variant of lines 246-262 that starts the next chunk empty.
OverlapParagraphs_none(current_chunk, k, taken) == <<>>

\* A variant of lines 250-258 that keeps the last paragraph only.
OverlapParagraphs_last(current_chunk, k, taken) == <<current_chunk[k]>>

\* content_processing.py:250-258: paragraphs from the tail of the closed chunk,
\* taken backward until they hold at least Overlap characters
RECURSIVE OverlapParagraphs(_, _, _)
OverlapParagraphs(current_chunk, k, taken) ==
    IF k = 0 THEN taken
    ELSE LET next == <<current_chunk[k]>> \o taken IN
         IF SumSeq(next) >= Overlap THEN next
         ELSE OverlapParagraphs(current_chunk, k - 1, next)

\* content_processing.py:232-275
RECURSIVE ChunkParagraphs(_, _, _, _)
ChunkParagraphs(paragraphs, k, current_chunk, closed) ==
    IF k > Len(paragraphs)
    THEN IF current_chunk # <<>> /\ SumSeq(current_chunk) > 0
         THEN closed \o <<current_chunk>> ELSE closed
    ELSE LET grown == current_chunk \o <<paragraphs[k]>> IN
         IF SumSeq(grown) >= ChunkSize
         THEN ChunkParagraphs(paragraphs, k + 1,
                              OverlapParagraphs(grown, Len(grown), <<>>),
                              closed \o <<grown>>)
         ELSE ChunkParagraphs(paragraphs, k + 1, grown, closed)

\* A variant of lines 209-222 that builds the single chunk from the
\* paragraphs, as the chunks of a long document are built.
ChunkDocument_paragraphs(doc) ==
    IF doc.content = <<>> \/ ContentLength(doc.content) = 0 THEN <<>>
    ELSE IF ContentLength(doc.content) < ChunkSize
    THEN <<Chunk(doc.url, Paragraphs(doc.content))>>
    ELSE LET bodies == ChunkParagraphs(Paragraphs(doc.content), 1, <<>>, <<>>)
         IN [k \in 1..Len(bodies) |-> Chunk(doc.url, bodies[k])]

\* content_processing.py:186-281, one document
ChunkDocument(doc) ==
    IF doc.content = <<>> \/ ContentLength(doc.content) = 0 THEN <<>>
    ELSE IF ContentLength(doc.content) < ChunkSize THEN <<Chunk(doc.url, doc.content)>>
    ELSE LET bodies == ChunkParagraphs(Paragraphs(doc.content), 1, <<>>, <<>>)
         IN [k \in 1..Len(bodies) |-> Chunk(doc.url, bodies[k])]

\* content_processing.py:161-288
chunk_content(scraped_content) ==
    Flatten([k \in 1..Len(scraped_content) |-> ChunkDocument(scraped_content[k])])

\* A variant that records the skipped node in the debug trail.
chunking_node_marked(state) ==
    IF ~IsNone(state.error)
    THEN [state EXCEPT !.debug = Mark(state.debug, "chunking", "failed")]
    ELSE IF IsNone(state.scraped_content) \/ Get(state.scraped_content) = <<>>
    THEN [state EXCEPT
            !.content_chunks = Some(<<>>),
            !.debug = Mark(state.debug, "chunking", "failed")]
    ELSE [state EXCEPT
            !.content_chunks = Some(chunk_content(Get(state.scraped_content))),
            !.debug = Mark(state.debug, "chunking", "success"),
            !.output = [state.output EXCEPT
                           !.content_chunks = Some(chunk_content(Get(state.scraped_content)))]]

\* graph.py:359-401
chunking_node(state) ==
    IF ~IsNone(state.error) THEN state
    ELSE IF IsNone(state.scraped_content) \/ Get(state.scraped_content) = <<>>
    THEN [state EXCEPT
            !.content_chunks = Some(<<>>),
            !.debug = Mark(state.debug, "chunking", "failed")]
    ELSE LET content_chunks == chunk_content(Get(state.scraped_content))
         IN [state EXCEPT
               !.content_chunks = Some(content_chunks),
               !.debug = Mark(state.debug, "chunking", "success"),
               !.output = [state.output EXCEPT !.content_chunks = Some(content_chunks)]]

--------------------------------------------------------------------------
(* analysis.py analyze_content                                             *)

Finding(type, description, severity, confidence) ==
    [type |-> type, description |-> description, severity |-> severity,
     confidence |-> confidence, url |-> NoUrl]

From(finding, url) == [finding EXCEPT !.url = url]

Concern(type, description) == [type |-> type, description |-> description]

AnalysisResult(has_negative_news, risk_score, summary, key_concerns, findings, sources) ==
    [has_negative_news |-> has_negative_news, risk_score |-> risk_score,
     summary |-> summary, key_concerns |-> key_concerns, findings |-> findings,
     sources |-> sources]

CleanResult(tag) == AnalysisResult(FALSE, 0, Sentence(tag), <<>>, <<>>, <<>>)

\* analysis.py:49-92: the fixed analysis of the test client (risk score 6.5)
MockFindings ==
    <<From(Finding("Financial", "accounting irregularities", 7, 6), <<"mock-financial-times", 0>>),
      From(Finding("Personal Conduct", "workplace harassment", 8, 7), <<"mock-news-daily", 0>>)>>

mock_analysis ==
    AnalysisResult(TRUE, 65, Sentence("mock analysis summary"),
                   <<Concern("Financial misconduct allegations", ""),
                     Concern("Workplace harassment claims", ""),
                     Concern("Legal disputes with former partners", "")>>,
                   MockFindings,
                   <<<<"mock-financial-times", 0>>, <<"mock-news-daily", 0>>>>)

\* A variant of the risk score without the cap of line 341.
RiskScore_uncapped(findings) ==
    SumSeq([k \in 1..Len(findings) |->
               findings[k].severity * findings[k].confidence])

\* analysis.py:334-341: round(min(total_risk, 10), 1), in tenths. Every term
\* severity * confidence / 10 is a whole number of tenths.
RiskScore(findings) ==
    Min(SumSeq([k \in 1..Len(findings) |->
                   findings[k].severity * findings[k].confidence]), 100)

\* analysis.py:344-346
FindingsSummary(findings) ==
    [tag |-> "Negative news detected with the following concerns",
     items |-> [k \in 1..Min(3, Len(findings)) |->
                   Concern(findings[k].type, findings[k].description)]]

\* analysis.py:352-372, one turn of the loop: the group of the finding's type
\* is opened if it is new, and takes the finding in
AddFinding(groups, finding) ==
    LET known == \E g \in 1..Len(groups) : groups[g].type = finding.type
        opened == IF known THEN groups
                  ELSE groups \o <<[type |-> finding.type, count |-> 0,
                                    severity |-> 0, confidence |-> 0,
                                    description |-> ""]>>
        g == CHOOSE x \in 1..Len(opened) : opened[x].type = finding.type
        summed == [opened[g] EXCEPT
                     !.count = @ + 1,
                     !.severity = @ + finding.severity,
                     !.confidence = @ + finding.confidence]
        described ==
            IF summed.description = ""
            THEN [summed EXCEPT !.description = finding.description]
            ELSE IF finding.severity * finding.confidence
                      > summed.severity * summed.confidence
            THEN [summed EXCEPT !.description = finding.description]
            ELSE summed
    IN [opened EXCEPT ![g] = described]

\* analysis.py:352-372: one group per finding type, in insertion order
RECURSIVE FindingTypes(_, _, _)
FindingTypes(findings, k, groups) ==
    IF k > Len(findings) THEN groups
    ELSE CHOOSE finding_types \in
             {FindingTypes(findings, k + 1, added) :
                  added \in {AddFinding(groups, findings[k])}} : TRUE

\* the sort key of a group, analysis.py:377
KeyLess(a, b) ==
    \/ a.count < b.count
    \/ a.count = b.count /\ a.severity * a.confidence < b.severity * b.confidence

\* analysis.py:375-379: sorted(..., reverse=True) is stable: a group goes
\* behind every group whose key is not smaller than its own.
\* A variant of the sort in which x goes before the groups with its own key.
Insert_front(sorted, x) ==
    LET n == Cardinality({k \in 1..Len(sorted) : KeyLess(x, sorted[k])})
    IN SubSeq(sorted, 1, n) \o <<x>> \o SubSeq(sorted, n + 1, Len(sorted))

\* one turn of the sort: x goes behind the groups whose key is not smaller
Insert(sorted, x) ==
    LET n == Cardinality({k \in 1..Len(sorted) : ~KeyLess(sorted[k], x)})
    IN SubSeq(sorted, 1, n) \o <<x>> \o SubSeq(sorted, n + 1, Len(sorted))

RECURSIVE SortedTypes(_, _, _)
SortedTypes(groups, k, sorted) ==
    IF k > Len(groups) THEN sorted
    ELSE CHOOSE sorted_types \in
             {SortedTypes(groups, k + 1, inserted) :
                  inserted \in {Insert(sorted, groups[k])}} : TRUE

\* analysis.py:349-382
KeyConcerns(findings) ==
    CHOOSE key_concerns \in
        {[k \in 1..Len(sorted_types) |->
             Concern(sorted_types[k].type, sorted_types[k].description)] :
         sorted_types \in
             {Take(SortedTypes(finding_types, 1, <<>>), 5) :
                  finding_types \in {FindingTypes(findings, 1, <<>>)}}} : TRUE

\* analysis.py:385-397
RECURSIVE Sources(_, _, _)
Sources(findings, k, source_urls) ==
    IF k > Len(findings) THEN <<>>
    ELSE IF findings[k].url = NoUrl \/ findings[k].url \in source_urls
    THEN Sources(findings, k + 1, source_urls)
    ELSE CHOOSE sources \in
             {<<findings[k].url>> \o Sources(findings, k + 1, seen) :
                  seen \in {source_urls \cup {findings[k].url}}} : TRUE

\* analysis.py:333-421
Aggregate(all_findings) ==
    IF all_findings # <<>>
    THEN AnalysisResult(TRUE, RiskScore(all_findings), FindingsSummary(all_findings),
                        KeyConcerns(all_findings), all_findings,
                        Sources(all_findings, 1, {}))
    ELSE CleanResult("No negative news detected based on the analyzed content.")


\* analysis.py:98-139: the entity record is filled in place
ProcessedEntity(entity) ==
    LET full1 == IF entity.full_name = "" /\ entity.name # "" THEN entity.name
                 ELSE entity.full_name
        name1 == IF entity.name = "" /\ full1 # "" THEN full1 ELSE entity.name
    IN IF full1 = "" THEN Entity("Unknown", "Unknown", "analysis-synth")
       ELSE Entity(full1, name1, "analysis-synth")

\* analysis.py:144-145: the name holds both "elon" and "musk"
forced_override(entity) == entity.full_name = "Elon Musk"

F1 == Finding("Fraud", "d1", 7, 6)

F2 == Finding("Scandal", "d2", 8, 7)

F3 == Finding("Fraud", "d3", 9, 9)

WithFindings(findings) == Record([NoFields EXCEPT !.findings = Some(findings)])

\* What the completion service answers for the k-th chunk
Analysts ==
    {"raise", "clean", "one", "two", "fenced", "garbage", "negative", "list",
     "nokey", "alternate"}

AnalystCall(analyst, k) ==
    CASE analyst = "raise" -> Raises
      [] analyst = "clean" -> Returns(Direct(WithFindings(<<>>)))
      [] analyst = "one" -> Returns(Direct(WithFindings(<<F1>>)))
      [] analyst = "two" -> Returns(Direct(WithFindings(<<F1, F2>>)))
      [] analyst = "fenced" -> Returns(Fenced(WithFindings(<<F2, F3>>)))
      [] analyst = "garbage" -> Returns(Garbage)
      [] analyst = "negative" -> Returns([Garbage EXCEPT !.negative = TRUE])
      [] analyst = "list" -> Returns(Direct(NonRecord))
      [] analyst = "nokey" -> Returns(Braced(Record(NoFields)))
      [] OTHER -> IF k % 2 = 1 THEN Returns(Direct(WithFindings(<<F3>>)))
                  ELSE Returns(Braced(WithFindings(<<F1>>)))

\* analysis.py:292: "findings" in analysis and it is a list
FindingsOf(value) ==
    IF value.t = "record" /\ ~IsNone(value.f.findings) THEN Get(value.f.findings)
    ELSE <<>>

\* analysis.py:260-297: the findings read from one response; raised when the
\* error reaches the handler of line 300
ResponseFindings(call) ==
    IF call.raised THEN [raised |-> TRUE, findings |-> <<>>]
    ELSE IF Parsed(call.text.whole)
    THEN IF call.text.whole.t = "nonrecord" THEN [raised |-> TRUE, findings |-> <<>>]
         ELSE [raised |-> FALSE, findings |-> FindingsOf(call.text.whole)]
    ELSE LET analysis == safe_extract_json(call.text) IN
         IF ~TruthyVal(analysis)
         THEN [raised |-> FALSE,
               findings |-> IF call.text.negative
                            THEN <<Finding("Unspecified negative information",
                                           "could not be parsed", 5, 3)>>
                            ELSE <<>>]
         ELSE [raised |-> FALSE, findings |-> FindingsOf(analysis)]

\* analysis.py:233-314: the findings of one chunk
ChunkFindings(chunk, forced, chunks_processed, all_findings, call) ==
    LET found ==
            IF forced /\ (chunks_processed >= 3 \/ all_findings = <<>>)
            THEN <<Finding("Controversial Business Decisions", "related to the title", 6, 7)>>
            ELSE IF ResponseFindings(call).raised
            THEN IF forced
                 THEN <<Finding("Possible Controversy", "error analyzing content", 4, 3)>>
                 ELSE <<>>
            ELSE ResponseFindings(call).findings
    IN [k \in 1..Len(found) |-> From(found[k], chunk.url)]

\* analysis.py:155-314
RECURSIVE AllFindings(_, _, _, _, _)
AllFindings(chunks, k, forced, analyst, all_findings) ==
    IF k > Len(chunks) THEN all_findings
    ELSE CHOOSE found \in
             {AllFindings(chunks, k + 1, forced, analyst, extended) :
                  extended \in {all_findings
                                  \o ChunkFindings(chunks[k], forced, k, all_findings,
                                                   AnalystCall(analyst, k))}} : TRUE

\* analysis.py:319-330
SocialMediaFinding ==
    From(Finding("Social Media Controversy", "controversial statements", 5, 7),
         <<"twitter", 0>>)

\* analysis.py:12-436. The result is the analysis and the entity record as the
\* analyzer leaves it (None when no entity was resolved).
analyze_content(chunks, entity, client, envDummy, analyst) ==
    IF chunks = <<>>
    THEN [analysis |-> CleanResult("No content available for analysis"), entity |-> entity]
    ELSE IF client = "raise"
    THEN [analysis |-> CleanResult("Analysis failed"), entity |-> entity]
    ELSE IF client = "mock" \/ envDummy
    THEN [analysis |-> mock_analysis, entity |-> entity]
    ELSE IF IsNone(entity)
    THEN [analysis |-> CleanResult("Analysis failed"), entity |-> entity]
    ELSE LET processed == ProcessedEntity(Get(entity))
             forced == forced_override(processed)
         IN CHOOSE result \in
                {[analysis |-> Aggregate(IF forced /\ found = <<>>
                                         THEN <<SocialMediaFinding>> ELSE found),
                  entity |-> Some(processed)] :
                 found \in {AllFindings(chunks, 1, forced, analyst, <<>>)}} : TRUE

\* graph.py:444-446 and 470-472
WithAnalysis(output, analysis) ==
    [output EXCEPT
       !.analysis = Some(analysis),
       !.has_negative_news = Some(analysis.has_negative_news),
       !.risk_score = Some(analysis.risk_score),
       !.summary = Some(analysis.summary)]

\* graph.py:403-474
analysis_node(state, client, envDummy, analyst) ==
    IF ~IsNone(state.error) /\ state.content_chunks = Some(<<>>) THEN state
    ELSE IF IsNone(state.content_chunks) \/ Get(state.content_chunks) = <<>>
    THEN LET analysis_result == CleanResult("No content was available for analysis")
         IN [state EXCEPT
               !.analysis = Some(analysis_result),
               !.debug = Mark(state.debug, "analysis", "success"),
               !.output = WithAnalysis(state.output, analysis_result)]
    ELSE CHOOSE new_state \in
             {[state EXCEPT
                 !.entity = result.entity,
                 !.analysis = Some(result.analysis),
                 !.debug = Mark(state.debug, "analysis", "success"),
                 !.output = [WithAnalysis(state.output, result.analysis) EXCEPT
                               !.entity = IF IsNone(@) THEN @ ELSE result.entity]] :
              result \in {analyze_content(Get(state.content_chunks), state.entity,
                                          client, envDummy, analyst)}} : TRUE

--------------------------------------------------------------------------
(* analysis.py format_results                                              *)

Report(has_negative_news, risk_score, summary, key_concerns, findings, sources, entity, recommendations) ==
    [has_negative_news |-> has_negative_news, risk_score |-> risk_score,
     summary |-> summary, key_concerns |-> key_concerns, findings |-> findings,
     sources |-> sources, entity |-> entity, recommendations |-> recommendations]

\* the reports of graph.py:486-493, 528-535 and 678-685
DefaultReport(tag) == Report(FALSE, 0, Sentence(tag), <<>>, <<>>, <<>>, None, FALSE)

RefinedSummary == Sentence("refined summary")

RefinedConcerns == <<Concern("refined concern", "")>>

Refined(summary, key_concerns, recommendations) ==
    Record([NoFields EXCEPT !.summary = summary, !.key_concerns = key_concerns,
                            !.recommendations = recommendations])

\* What the completion service answers to the Formatter
Formatters ==
    {"raise", "record", "partial", "empty", "list", "fenced", "fencedlist", "garbage"}

FormatterCall(formatter) ==
    CASE formatter = "raise" -> Raises
      [] formatter = "record" -> Returns(Direct(Refined(TRUE, TRUE, TRUE)))
      [] formatter = "partial" -> Returns(Direct(Refined(TRUE, FALSE, FALSE)))
      [] formatter = "empty" -> Returns(Direct(EmptyRecord))
      [] formatter = "list" -> Returns(Direct(NonRecord))
      [] formatter = "fenced" -> Returns(Fenced(Refined(TRUE, TRUE, FALSE)))
      [] formatter = "fencedlist" -> Returns(Fenced(NonRecord))
      [] OTHER -> Returns(Garbage)

\* analysis.py:474-488: the report of the test client
MockReport(analysis, entity) ==
    Report(analysis.has_negative_news, analysis.risk_score,
           IF analysis.has_negative_news /\ analysis.findings # <<>>
           THEN Sentence("mock report: concerns identified")
           ELSE Sentence("mock report: no negative news detected"),
           analysis.key_concerns, analysis.findings, analysis.sources,
           Some(entity), FALSE)

\* analysis.py:544-556 and 570-578: the report built from a recovered record
RefinedReport(analysis, entity, formatted) ==
    Report(analysis.has_negative_news, analysis.risk_score,
           IF formatted.f.summary THEN RefinedSummary ELSE analysis.summary,
           IF formatted.f.key_concerns THEN RefinedConcerns ELSE analysis.key_concerns,
           analysis.findings, analysis.sources, Some(entity),
           formatted.f.recommendations)

\* analysis.py:581-589
OriginalReport(analysis, entity) ==
    Report(analysis.has_negative_news, analysis.risk_score, analysis.summary,
           analysis.key_concerns, analysis.findings, analysis.sources,
           Some(entity), FALSE)

\* A variant of the error report that resets the risk fields to their defaults.
ErrorReport_defaults(analysis, entity) ==
    Report(FALSE, 0, Sentence("Error formatting results"), <<>>, analysis.findings,
           <<>>, Some(entity), FALSE)

\* analysis.py:593-621
ErrorReport(analysis, entity) ==
    Report(analysis.has_negative_news, analysis.risk_score,
           Sentence("Error formatting results"), <<>>, analysis.findings, <<>>,
           Some(entity), FALSE)

\* analysis.py:438-621
format_results(analysis, entity, client, envDummy, call) ==
    IF client = "raise" THEN ErrorReport(analysis, entity)
    ELSE IF client = "mock" \/ envDummy THEN MockReport(analysis, entity)
    ELSE IF call.raised THEN ErrorReport(analysis, entity)
    ELSE IF Parsed(call.text.whole)
    THEN IF call.text.whole.t = "nonrecord" THEN ErrorReport(analysis, entity)
         ELSE RefinedReport(analysis, entity, call.text.whole)
    ELSE LET formatted == safe_extract_json(call.text) IN
         IF ~TruthyVal(formatted) THEN OriginalReport(analysis, entity)
         ELSE IF formatted.t = "nonrecord" THEN ErrorReport(analysis, entity)
         ELSE RefinedReport(analysis, entity, formatted)

\* graph.py:512-520 and 543-551
WithReport(output, report) ==
    [output EXCEPT
       !.report = Some(report),
       !.has_negative_news = IF IsNone(@) THEN Some(report.has_negative_news) ELSE @,
       !.risk_score = IF IsNone(@) THEN Some(report.risk_score) ELSE @,
       !.summary = IF IsNone(@) THEN Some(report.summary) ELSE @]

\* A variant of the formatting node without the handler of lines 524-553: the
\* error of line 482 leaves the state without a report.
formatting_node_unhandled(state, client, envDummy, call) ==
    IF IsNone(state.entity) THEN state
    ELSE LET report == IF IsNone(state.analysis)
                       THEN DefaultReport("No analysis was available to format")
                       ELSE format_results(Get(state.analysis), Get(state.entity),
                                           client, envDummy, call)
         IN [state EXCEPT
               !.report = Some(report),
               !.debug = Mark(state.debug, "formatting", "success"),
               !.output = WithReport(state.output, report)]

\* graph.py:476-553. Reading the name of an entity that is None raises
\* (line 482), which gives the default report of the handler.
formatting_node(state, client, envDummy, call) ==
    IF IsNone(state.entity)
    THEN LET default_report == DefaultReport("Formatting failed")
         IN [state EXCEPT
               !.report = Some(default_report),
               !.debug = Mark(state.debug, "formatting", "failed"),
               !.output = WithReport(state.output, default_report)]
    ELSE LET report == IF IsNone(state.analysis)
                       THEN DefaultReport("No analysis was available to format")
                       ELSE format_results(Get(state.analysis), Get(state.entity),
                                           client, envDummy, call)
         IN [state EXCEPT
               !.report = Some(report),
               !.debug = Mark(state.debug, "formatting", "success"),
               !.output = WithReport(state.output, report)]

--------------------------------------------------------------------------
(* graph.py invoke_negative_news_check                                     *)

NoResult ==
    [status |-> "none", has_negative_news |-> FALSE, risk_score |-> 0,
     summary |-> Sentence(""), report |-> None, error |-> FALSE]

\* graph.py:639-659
Extracted(result) ==
    LET output == result.output IN
    [status |-> "returned",
     has_negative_news |-> IF IsNone(output.has_negative_news) THEN FALSE
                           ELSE Get(output.has_negative_news),
     risk_score |-> IF IsNone(output.risk_score) THEN 0 ELSE Get(output.risk_score),
     summary |-> IF IsNone(output.summary) THEN Sentence("No summary available")
                 ELSE Get(output.summary),
     report |-> IF IsNone(output.report) THEN result.report ELSE output.report,
     error |-> FALSE]

\* A variant of the handler's result that hands the analysis-free defaults on
\* without marking the call as returned.
ErrorResult_unreturned ==
    [status |-> "none", has_negative_news |-> FALSE, risk_score |-> 0,
     summary |-> Sentence(""), report |-> None, error |-> TRUE]

\* graph.py:660-688: the minimal result of the handler
ErrorResult ==
    [status |-> "returned", has_negative_news |-> FALSE, risk_score |-> 0,
     summary |-> Sentence("Error during negative news check"),
     report |-> Some(DefaultReport("Error during negative news check")),
     error |-> TRUE]

--------------------------------------------------------------------------
(* What the completion service answers to the Resolver and to the Query    *)
(* Generator. The test client answers by the key words of the prompt       *)
(* (utils.py:64-184).                                                      *)

Named(full_name, description) ==
    Record([NoFields EXCEPT !.full_name = full_name, !.description = description])

Resolvers == {"raise", "record", "noname", "emptyname", "fenced", "garbage", "list"}

ResolverCall(resolver) ==
    CASE resolver = "raise" -> Raises
      [] resolver = "record" -> Returns(Direct(Named(ResolvedName, TRUE)))
      [] resolver = "noname" -> Returns(Direct(Named("absent", TRUE)))
      [] resolver = "emptyname" -> Returns(Direct(Named("", FALSE)))
      [] resolver = "fenced" -> Returns(Fenced(Named(ResolvedName, FALSE)))
      [] resolver = "list" -> Returns(Direct(NonRecord))
      [] resolver = "mock" -> Returns(Direct(Record(NoFields)))
      [] OTHER -> Returns(Garbage)

Queries(web, news) == Record([NoFields EXCEPT !.web = web, !.news = news])

LlmWeb == <<Query("llm", "w1"), Query("llm", "w2")>>

LlmNews == <<Query("llm", "n1")>>

Generators ==
    {"raise", "record", "webonly", "newsonly", "empty", "lines", "garbage", "list"}

GeneratorCall(generator) ==
    CASE generator = "raise" -> Raises
      [] generator = "record" -> Returns(Direct(Queries(LlmWeb, LlmNews)))
      [] generator = "webonly" -> Returns(Fenced(Queries(LlmWeb, <<>>)))
      [] generator = "newsonly" -> Returns(Direct(Queries(<<>>, LlmNews)))
      [] generator = "empty" -> Returns(Direct(Queries(<<>>, <<>>)))
      [] generator = "lines" -> Returns([Garbage EXCEPT !.lineWeb = LlmWeb])
      [] generator = "list" -> Returns(Direct(NonRecord))
      [] generator = "mock" ->
            Returns(Direct(Queries(Templates("John Doe", <<"CEO background", "negative news",
                                                           "reputation issues">>),
                                   Templates("John Doe", <<"scandal", "controversy",
                                                           "legal issues">>))))
      [] OTHER -> Returns(Garbage)

\* the answers a client can give: the test client has one answer
Answers(client, live) == IF client = "live" THEN live ELSE {"mock"}

--------------------------------------------------------------------------
(* The state machine                                                       *)

\* no function has been called on its own
NoCall == [fn |-> "none"]

Init ==
    /\ openaiEnv \in OpenAIEnvs
    /\ bingKey \in BOOLEAN
    /\ lastInput = None
    /\ pc = [i \in Invocations |-> IF i = 1 THEN "idle" ELSE "unused"]
    /\ req = [i \in Invocations |-> EmptyDict]
    /\ st = [i \in Invocations |-> NoState]
    /\ ret = [i \in Invocations |-> NoResult]
    /\ unit = NoCall

\* Concurrent invocations, in the test configuration of the collaborators
InitConcurrent ==
    /\ openaiEnv = "dummy"
    /\ bingKey = FALSE
    /\ lastInput = None
    /\ pc = [i \in Invocations |-> "idle"]
    /\ req = [i \in Invocations |-> EmptyDict]
    /\ st = [i \in Invocations |-> NoState]
    /\ ret = [i \in Invocations |-> NoResult]
    /\ unit = NoCall

client == get_openai_client(openaiEnv)

envDummy == EnvIsDummy(openaiEnv)

Goto(i, next) == pc' = [pc EXCEPT ![i] = next]

Node(i, next, new_state) ==
    /\ st' = [st EXCEPT ![i] = new_state]
    /\ Goto(i, next)
    /\ UNCHANGED <<openaiEnv, bingKey, lastInput, req, ret, unit>>

\* graph.py:616-619: the request is stored in the module-level slot
Invoke(i) ==
    /\ pc[i] = "idle"
    /\ \E r \in Requests :
          /\ req' = [req EXCEPT ![i] = r]
          /\ lastInput' = Some(r)
    /\ Goto(i, "invoke")
    /\ UNCHANGED <<openaiEnv, bingKey, st, ret, unit>>

\* graph.py:637: graph.invoke starts the graph at its entry point
GraphInvoke(i) ==
    /\ pc[i] = "invoke"
    /\ Goto(i, "initialize")
    /\ UNCHANGED <<openaiEnv, bingKey, lastInput, req, st, ret, unit>>

\* graph.py:637: graph.invoke raises
GraphRaises(i) ==
    /\ pc[i] = "invoke"
    /\ Goto(i, "raised")
    /\ UNCHANGED <<openaiEnv, bingKey, lastInput, req, st, ret, unit>>

\* graph.py:660-688
Handler(i) ==
    /\ pc[i] = "raised"
    /\ ret' = [ret EXCEPT ![i] = ErrorResult]
    /\ Goto(i, "done")
    /\ UNCHANGED <<openaiEnv, bingKey, lastInput, req, st, unit>>

Initialize(i) ==
    /\ pc[i] = "initialize"
    /\ Node(i, "entity_resolution", initialize_state(req[i], lastInput))

EntityResolution(i) ==
    /\ pc[i] = "entity_resolution"
    /\ \E resolver \in Answers(client, Resolvers) :
          Node(i, "query_generation",
               entity_resolution_node(st[i], client, ResolverCall(resolver)))

QueryGeneration(i) ==
    /\ pc[i] = "query_generation"
    /\ \E generator \in Answers(client, Generators) :
          Node(i, "search", query_generation_node(st[i], client, GeneratorCall(generator)))

Search(i) ==
    /\ pc[i] = "search"
    /\ \E prov \in Providers :
          Node(i, "scraping", search_node(st[i], envDummy, bingKey, prov))

Scraping(i) ==
    /\ pc[i] = "scraping"
    /\ \E fetcher \in Fetchers :
          Node(i, "chunking", scraping_node(st[i], envDummy, fetcher))

\* A variant in which the chunking node is followed by the formatting node.
Chunking_toformatting(i) ==
    /\ pc[i] = "chunking"
    /\ Node(i, "formatting", chunking_node(st[i]))

Chunking(i) ==
    /\ pc[i] = "chunking"
    /\ Node(i, "analyzer", chunking_node(st[i]))

Analyzer(i) ==
    /\ pc[i] = "analyzer"
    /\ \E analyst \in Analysts :
          Node(i, "formatting", analysis_node(st[i], client, envDummy, analyst))

Formatting(i) ==
    /\ pc[i] = "formatting"
    /\ \E formatter \in Formatters :
          Node(i, "extract",
               formatting_node(st[i], client, envDummy, FormatterCall(formatter)))

\* graph.py:639-659
Extract(i) ==
    /\ pc[i] = "extract"
    /\ ret' = [ret EXCEPT ![i] = Extracted(st[i])]
    /\ Goto(i, "done")
    /\ UNCHANGED <<openaiEnv, bingKey, lastInput, req, st, unit>>

Step(i) ==
    \/ Invoke(i)
    \/ GraphInvoke(i)
    \/ GraphRaises(i)
    \/ Handler(i)
    \/ Initialize(i)
    \/ EntityResolution(i)
    \/ QueryGeneration(i)
    \/ Search(i)
    \/ Scraping(i)
    \/ Chunking(i)
    \/ Analyzer(i)
    \/ Formatting(i)
    \/ Extract(i)

Next == \E i \in Invocations : Step(i)

Spec == Init /\ [][Next]_vars

SpecConcurrent == InitConcurrent /\ [][Next]_vars

\* graph.py:575-583: the nodes from the entry point along the edges, each with
\* its key in the debug trail
StageOrder ==
    <<<<"initialize", "initialization">>, <<"entity_resolution", "entity_resolution">>,
      <<"query_generation", "query_generation">>, <<"search", "search">>,
      <<"scraping", "scraping">>, <<"chunking", "chunking">>,
      <<"analyzer", "analysis">>, <<"formatting", "formatting">>>>

\* The graph runs its nodes one after the other and every call returns or
\* raises: an invocation that can take a step takes it.
SpecFair == Spec /\ \A i \in Invocations : WF_vars(Step(i))

--------------------------------------------------------------------------
(* The functions of agent.nodes called on their own, once, with arguments  *)
(* drawn from bounded sets, in every environment of the process.           *)

MaxQueries == 4

MaxTopK == 4

Topics == <<"controversy", "negative news", "scandal", "lawsuit", "fraud", "investigation">>

QueryList(n) == Templates("Jane Smith", SubSeq(Topics, 1, n))

InitNodes ==
    /\ openaiEnv \in OpenAIEnvs
    /\ bingKey \in BOOLEAN
    /\ lastInput = None
    /\ pc = [i \in Invocations |-> "unused"]
    /\ req = [i \in Invocations |-> EmptyDict]
    /\ st = [i \in Invocations |-> NoState]
    /\ ret = [i \in Invocations |-> NoResult]
    /\ unit = NoCall

\* the call is the only one
Called(call) ==
    /\ unit' = call
    /\ UNCHANGED <<openaiEnv, bingKey, lastInput, pc, req, st, ret>>

\* search.py:12-90 call_web_search(state, engine, top_k)
CallWebSearch ==
    /\ unit = NoCall
    /\ \E n \in 0..MaxQueries, m \in 0..1, top_k \in 0..MaxTopK, prov \in Providers :
        Called([fn |-> "call_web_search",
                web_queries |-> QueryList(n),
                news_queries |-> QueryList(m),
                top_k |-> top_k,
                prov |-> prov,
                search_results |->
                    call_web_search(QueryList(n), QueryList(m),
                                    RequestEntity("Jane Smith"),
                                    envDummy, bingKey, prov, top_k)])

MaxLines == 4

\* the lengths of the lines of a page: blank, short, long, and longer than a
\* chunk
LineLengths == {0, 150, 250, 900, 2000, 2500}

Bodies == UNION {[1..n -> LineLengths] : n \in 0..MaxLines}

\* content_processing.py:161-288 chunk_content(state), on one document or on
\* two
\* a page of 43 paragraphs of 100 characters, its lines following each other
\* or separated by blank lines
ScenarioBodies ==
    {[k \in 1..43 |-> 100], [k \in 1..85 |-> IF k % 2 = 1 THEN 100 ELSE 0]}

ChunkContent ==
    /\ unit = NoCall
    /\ \E body \in Bodies \cup ScenarioBodies, more \in BOOLEAN :
        LET scraped_content ==
                <<Document(LiveUrl(1), body)>>
                \o (IF more THEN <<Document(LiveUrl(2), ShortBody)>> ELSE <<>>)
        IN Called([fn |-> "chunk_content",
                   scraped_content |-> scraped_content,
                   content_chunks |-> chunk_content(scraped_content)])

MaxItems == 2

MaxTokens == 3

Scalars == {JScalar("str", "a"), JScalar("num", "1"), JScalar("null", "null")}

\* the arrays of at most MaxItems of the values
ArraysOver(values) ==
    UNION {{JArr(items) : items \in [1..n -> values]} : n \in 0..MaxItems}

\* lists of different keys
KeyLists ==
    {ks \in UNION {[1..n -> {"a", "b"}] : n \in 0..MaxItems} :
        \A j, k \in DOMAIN ks : ks[j] = ks[k] => j = k}

\* the objects of at most MaxItems members with the values
ObjectsOver(values) ==
    UNION {{JObj([k \in DOMAIN ks |-> Member(ks[k], vs[k])]) :
               vs \in [DOMAIN ks -> values]} : ks \in KeyLists}

\* records of scalars, arrays of scalars and records of scalars
Records == ObjectsOver(Scalars \cup ArraysOver(Scalars) \cup ObjectsOver(Scalars))

Alphabet ==
    {Punct("{"), Punct("}"), Punct("["), Punct("]"), Punct(","), Punct(":"), Fence,
     Tok("word", "json"), Tok("word", "prose"),
     Tok("str", "a"), Tok("num", "1"), Tok("null", "null")}

\* the texts of at most MaxTokens tokens, and the serialized text of a record
\* in a completion: after a sentence in a fenced block, in a fenced block
\* before a sentence, between two sentences (there also a record of records)
Texts ==
    UNION {[1..n -> Alphabet] : n \in 0..MaxTokens}
    \cup UNION {{<<Tok("word", "prose"), Fence, Tok("word", "json")>>
                     \o json_dumps(r) \o <<Fence>>,
                 <<Fence>> \o json_dumps(r) \o <<Fence, Tok("word", "prose")>>,
                 <<Tok("word", "prose")>> \o json_dumps(r) \o <<Tok("word", "prose")>>} :
                r \in ObjectsOver(Scalars)}
    \cup {<<Tok("word", "prose")>> \o json_dumps(r) \o <<Tok("word", "prose")>> :
             r \in ObjectsOver({JObj(<<>>), JObj(<<Member("a", JScalar("num", "1"))>>)})}

\* utils.py:393-432 safe_extract_json(json.dumps(r))
ExtractSerialized ==
    /\ unit = NoCall
    /\ \E r \in Records :
          Called([fn |-> "safe_extract_json",
                  record |-> Some(r),
                  text |-> json_dumps(r),
                  returned |-> safe_extract_json(ReadText(json_dumps(r)))])

\* utils.py:393-432 safe_extract_json(text)
ExtractJson ==
    /\ unit = NoCall
    /\ \E text \in Texts :
          Called([fn |-> "safe_extract_json",
                  record |-> None,
                  text |-> text,
                  returned |-> safe_extract_json(ReadText(text))])

MaxFindings == 3

\* findings of a completion response: two types with several findings, two
\* types with the scores of F1
SomeFindings ==
    {F1, F2, F3, Finding("Legal", "d4", 7, 6), Finding("Tax", "d5", 5, 5),
     Finding("Bribery", "d6", 7, 6)}

\* findings of four more types
MoreFindings ==
    <<Finding("Sanctions", "b1", 7, 6), Finding("Lawsuit", "b2", 7, 6),
      Finding("Insolvency", "b3", 2, 2), Finding("Harassment", "b4", 9, 9)>>

\* analysis.py:349-382: the key concerns of the findings of an analysis
CompileKeyConcerns ==
    /\ unit = NoCall
    /\ \E some \in UNION {[1..n -> SomeFindings] : n \in 0..MaxFindings} :
       \E all_findings \in {some, some \o MoreFindings, MoreFindings \o some} :
          Called([fn |-> "key_concerns",
                  all_findings |-> all_findings,
                  key_concerns |-> KeyConcerns(all_findings)])

NextNodes ==
    \/ CallWebSearch
    \/ CompileKeyConcerns
    \/ ChunkContent
    \/ ExtractSerialized
    \/ ExtractJson

SpecNodes == InitNodes /\ [][NextNodes]_vars

--------------------------------------------------------------------------
(* Properties                                                              *)

\* the graph of invocation i has run to its end
Terminal(i) == pc[i] \in {"extract", "done"} /\ st[i].debug["initialization"] # "none"

\* invocation i takes the step of the node `stage`, which is not skipped
NodeStep(i, stage, next) == pc[i] = stage /\ pc'[i] = next /\ IsNone(st[i].error)

\* the graph of invocation i has been started
Started(i) == pc[i] = "initialize" \/ st[i].debug["initialization"] # "none"

\* C1: every invocation whose graph starts, whatever stages fail, are skipped
\* or return nothing, eventually ends after the formatting stage has run, with
\* a report in the state that carries has_negative_news and risk_score. An
\* invocation that has ended stays as it is, so this is: from some point on,
\* every started invocation has ended in this way.
C1_ReachesFormatAndTerminates ==
    <>[](\A i \in Invocations :
            Started(i) =>
                /\ pc[i] = "done"
                /\ st[i].debug["formatting"] # "none"
                /\ ~IsNone(st[i].report)
                /\ Get(st[i].report).has_negative_news \in BOOLEAN
                /\ Get(st[i].report).risk_score \in 0..100)

\* an invocation has ended with a report although resolution, query
\* generation, fetching and chunking all failed
C1_Witness ==
    /\ pc[1] = "done"
    /\ st[1].debug["entity_resolution"] = "failed"
    /\ st[1].debug["query_generation"] = "failed"
    /\ st[1].debug["scraping"] = "failed"
    /\ st[1].debug["chunking"] = "failed"
    /\ ~IsNone(st[1].report)

\* C2: every stage-local failure (the completion call raises in Resolve,
\* GenerateQueries or Analyze, the provider errors in Search, Fetch or Chunk
\* gets an empty input) stores the stage's fallback value and marks the stage
\* "failed" in the debug trail.
C2_FailureIsMarkedFailed ==
    [][\A i \in Invocations :
          /\ (/\ NodeStep(i, "entity_resolution", "query_generation")
              /\ client = "live"
              /\ st'[i] = entity_resolution_node(st[i], client, Raises))
             => (~IsNone(st'[i].entity)
                 /\ st'[i].debug["entity_resolution"] = "failed")
          /\ (/\ NodeStep(i, "query_generation", "search")
              /\ client = "live"
              /\ st'[i] = query_generation_node(st[i], client, Raises))
             => (~IsNone(st'[i].queries)
                 /\ st'[i].debug["query_generation"] = "failed")
          /\ (/\ NodeStep(i, "search", "scraping")
              /\ ~envDummy /\ bingKey
              /\ st'[i] = search_node(st[i], envDummy, bingKey, "error"))
             => (st'[i].search_results = Some(<<>>)
                 /\ st'[i].debug["search"] = "failed")
          /\ (/\ NodeStep(i, "scraping", "chunking")
              /\ st[i].search_results = Some(<<>>))
             => (st'[i].scraped_content = Some(<<>>)
                 /\ st'[i].debug["scraping"] = "failed")
          /\ (/\ NodeStep(i, "chunking", "analyzer")
              /\ st[i].scraped_content = Some(<<>>))
             => (st'[i].content_chunks = Some(<<>>)
                 /\ st'[i].debug["chunking"] = "failed")
          /\ (/\ NodeStep(i, "analyzer", "formatting")
              /\ client = "live"
              /\ ~IsNone(st[i].content_chunks)
              /\ st[i].content_chunks # Some(<<>>)
              /\ st'[i] = analysis_node(st[i], client, envDummy, "raise"))
             => (~IsNone(st'[i].analysis)
                 /\ st'[i].debug["analysis"] = "failed")]_vars

\* C3: when the search provider errors on every query, the search stage leaves
\* search_results = [] and marks "search" as "failed", and the report that the
\* formatting stage then builds has has_negative_news = false.
C3_ProviderErrorsOnEveryQuery ==
    [][\A i \in Invocations :
          /\ (/\ NodeStep(i, "search", "scraping")
              /\ ~envDummy /\ bingKey
              /\ st'[i] = search_node(st[i], envDummy, bingKey, "error"))
             => (st'[i].search_results = Some(<<>>)
                 /\ st'[i].debug["search"] = "failed")
          /\ (/\ pc[i] = "formatting" /\ pc'[i] = "extract"
              /\ st[i].search_results = Some(<<>>))
             => (~IsNone(st'[i].report)
                 /\ ~Get(st'[i].report).has_negative_news)]_vars

\* C4: the analysis and the formatting stage always run, also when the error
\* marker is set: in every terminal state analysis is not None and the debug
\* trail has an entry for "analysis" and one for "formatting".
C4_AnalysisAndFormattingAlwaysRun ==
    \A i \in Invocations :
        Terminal(i) =>
            /\ ~IsNone(st[i].analysis)
            /\ st[i].debug["analysis"] # "none"
            /\ st[i].debug["formatting"] # "none"

\* a terminal state with the error marker set, in which both stages have run
C4_Witness ==
    /\ pc[1] = "done"
    /\ ~IsNone(st[1].error)
    /\ st[1].debug["chunking"] = "none"
    /\ ~IsNone(st[1].analysis)
    /\ st[1].debug["analysis"] = "success"
    /\ st[1].debug["formatting"] = "failed"

\* C5: with invocations running concurrently, the input of every initialised
\* state is built from the request of its own invocation.
C5_InputFromOwnRequest ==
    \A i \in Invocations :
        st[i].debug["initialization"] = "success"
            => st[i].input = Some(InputData(req[i]))

\* C6: initialization uses the input handed to it and nothing else: the input
\* it stores is the one it stores for the same request when no earlier
\* invocation has left a request behind.
C6_NoGlobalSubstitution ==
    [][\A i \in Invocations :
          (pc[i] = "initialize" /\ pc'[i] = "entity_resolution")
              => st'[i].input = initialize_state(req[i], None).input]_vars

\* C7: the wrapper never raises: every call returns, and a call whose graph
\* run failed returns has_negative_news = false, risk_score = 0 and a summary
\* that carries the error.
C7_WrapperNeverRaises ==
    \A i \in Invocations :
        pc[i] = "done" =>
            /\ ret[i].status = "returned"
            /\ st[i].debug["initialization"] = "none" =>
                  /\ ret[i].has_negative_news = FALSE
                  /\ ret[i].risk_score = 0
                  /\ ret[i].summary = Sentence("Error during negative news check")

\* a call has returned from the handler of graph.py:660-688
C7_Witness ==
    /\ pc[1] = "done"
    /\ st[1].debug["initialization"] = "none"
    /\ ret[1].error
    /\ ret[1].status = "returned"

\* C8: in every terminal state with an analysis, the report's
\* has_negative_news and risk_score are those of the analysis.
C8_ReportKeepsRiskFields ==
    \A i \in Invocations :
        (Terminal(i) /\ ~IsNone(st[i].analysis)) =>
            /\ ~IsNone(st[i].report)
            /\ Get(st[i].report).has_negative_news = Get(st[i].analysis).has_negative_news
            /\ Get(st[i].report).risk_score = Get(st[i].analysis).risk_score

\* a terminal state whose analysis found negative news and whose report comes
\* from the failure path of the formatter
C8_Witness ==
    /\ pc[1] = "done"
    /\ ~IsNone(st[1].analysis)
    /\ Get(st[1].analysis).has_negative_news
    /\ Get(st[1].analysis).risk_score > 0
    /\ ~IsNone(st[1].report)
    /\ Get(st[1].report).summary = Sentence("Error formatting results")

\* C9: when the formatter's completion call raises or its response is not a
\* recoverable record, the report's summary and key_concerns are the
\* analyzer's.
C9_FormatterFailureKeepsSummary ==
    [][\A i \in Invocations :
          (/\ pc[i] = "formatting" /\ pc'[i] = "extract"
           /\ client = "live"
           /\ ~IsNone(st[i].entity)
           /\ ~IsNone(st[i].analysis)
           /\ \E formatter \in {"raise", "list", "fencedlist", "garbage"} :
                 st'[i] = formatting_node(st[i], client, envDummy,
                                          FormatterCall(formatter)))
          => /\ ~IsNone(st'[i].report)
             /\ Get(st'[i].report).summary = Get(st[i].analysis).summary
             /\ Get(st'[i].report).key_concerns = Get(st[i].analysis).key_concerns]_vars

\* C10: the risk_score of every analysis result is min(10, sum of
\* severity * confidence / 10) rounded to one decimal (here in tenths); for
\* the findings (7, 6) and (8, 7) it is 9.8.
C10_RiskScoreFormula ==
    \A i \in Invocations :
        ~IsNone(st[i].analysis) =>
            LET analysis == Get(st[i].analysis)
                scores == [k \in 1..Len(analysis.findings) |->
                              <<analysis.findings[k].severity,
                                analysis.findings[k].confidence>>]
            IN /\ analysis.risk_score
                    = Min(SumSeq([k \in 1..Len(scores) |-> scores[k][1] * scores[k][2]]),
                          100)
               /\ scores = <<<<7, 6>>, <<8, 7>>>> => analysis.risk_score = 98

\* C11: the risk_score of every analysis result and of every report lies in
\* [0, 10] with at most one decimal (a whole number of tenths from 0 to 100),
\* and is exactly 0 when the findings are empty.
C11_RiskScoreInRange ==
    \A i \in Invocations :
        /\ ~IsNone(st[i].analysis) =>
              /\ Get(st[i].analysis).risk_score \in 0..100
              /\ Get(st[i].analysis).findings = <<>>
                    => Get(st[i].analysis).risk_score = 0
        /\ ~IsNone(st[i].report) =>
              /\ Get(st[i].report).risk_score \in 0..100
              /\ Get(st[i].report).findings = <<>>
                    => Get(st[i].report).risk_score = 0

\* an analysis of the live client whose findings sum to more than 10, with
\* its report
C11_Witness ==
    /\ pc[1] = "done"
    /\ client = "live"
    /\ ~IsNone(st[1].analysis)
    /\ Len(Get(st[1].analysis).findings) >= 3
    /\ Get(st[1].analysis).risk_score = 100
    /\ ~IsNone(st[1].report)
    /\ Get(st[1].report).risk_score = 100

\* the results the provider returns for the searched queries of a call of
\* call_web_search, in the order of the queries
Returned(call) ==
    Flatten([k \in 1..Len(SearchedQueries(call.web_queries, call.news_queries,
                                          RequestEntity("Jane Smith"))) |->
                perform_bing_search(call.prov, k)])

\* the first of the results with the URL url
FirstWith(results, url) ==
    results[CHOOSE k \in 1..Len(results) :
               /\ results[k].url = url
               /\ \A j \in 1..(k - 1) : results[j].url # url]

\* C12: the search results that call_web_search returns never contain two
\* entries with the same URL, and with the provider an entry is the first of
\* the results returned with its URL.
C12_UniqueUrlsFirstKept ==
    unit.fn = "call_web_search" =>
        /\ \A j, k \in 1..Len(unit.search_results) :
              unit.search_results[j].url = unit.search_results[k].url => j = k
        /\ ~envDummy /\ bingKey =>
              \A k \in 1..Len(unit.search_results) :
                  unit.search_results[k] =
                      FirstWith(Returned(unit), unit.search_results[k].url)

\* the provider has returned the URL of the first result again, with another
\* description, and the first result is kept
C12_Witness ==
    /\ unit.fn = "call_web_search"
    /\ ~envDummy /\ bingKey
    /\ Len(unit.search_results) >= 2
    /\ \E k \in 2..Len(Returned(unit)) :
          /\ Returned(unit)[k].url = Returned(unit)[1].url
          /\ Returned(unit)[k] # Returned(unit)[1]
    /\ unit.search_results[1] = Returned(unit)[1]

\* C13: call_web_search returns at most top_k search results, for every
\* number of queries, with the provider and with the substitute search.
C13_AtMostTopK ==
    unit.fn = "call_web_search" => Len(unit.search_results) <= unit.top_k

\* C14: scrape_content emits exactly one document per search result it
\* receives, in the same order, and drops no result.
C14_OneDocumentPerResult ==
    \A i \in Invocations :
        st[i].debug["scraping"] = "success" =>
            LET search_results == Get(st[i].search_results)
                scraped_content == Get(st[i].scraped_content)
            IN /\ Len(scraped_content) = Len(search_results)
               /\ \A k \in 1..Len(scraped_content) :
                     scraped_content[k].url = search_results[k].url

\* the chunks of the document with the URL url
ChunksOf(chunks, url) == SelectSeq(chunks, LAMBDA c : c.url = url)

\* a call of chunk_content on a list whose first document is doc
Chunked(doc) == unit.fn = "chunk_content" /\ unit.scraped_content[1] = doc

\* C15: a document whose body is non-empty and shorter than 2000 characters
\* gets exactly one chunk, whose text is the metadata header followed by the
\* whole body.
C15_ShortDocumentOneChunk ==
    unit.fn = "chunk_content" =>
        LET doc == unit.scraped_content[1] IN
        ContentLength(doc.content) > 0 /\ ContentLength(doc.content) < 2000
            => ChunksOf(unit.content_chunks, doc.url) = <<Chunk(doc.url, doc.content)>>

\* a short document with a blank line between its paragraphs, chunked together
\* with a second document
C15_Witness ==
    /\ Chunked(Document(LiveUrl(1), <<150, 0, 900>>))
    /\ Len(unit.content_chunks) = 2
    /\ unit.content_chunks[1].lines = <<150, 0, 900>>

\* C16: every chunk has a body of at most 2000 characters, the last chunk of
\* a document being the only possible exception.
C16_ChunkAtMostMaximum ==
    unit.fn = "chunk_content" =>
        LET chunks == ChunksOf(unit.content_chunks, unit.scraped_content[1].url) IN
        \A k \in 1..(Len(chunks) - 1) : ContentLength(chunks[k].lines) <= ChunkSize

\* C17: for a document with a body of at least 2000 characters, each chunk
\* after the first begins with paragraphs from the tail of the preceding chunk
\* of the document that total at least 200 characters.
C17_ChunksOverlap ==
    unit.fn = "chunk_content" =>
        LET doc == unit.scraped_content[1]
            chunks == ChunksOf(unit.content_chunks, doc.url)
        IN ContentLength(doc.content) >= 2000 =>
              \A k \in 2..Len(chunks) :
                  \E n \in 1..Min(Len(chunks[k].lines), Len(chunks[k - 1].lines)) :
                      /\ SubSeq(chunks[k].lines, 1, n)
                            = SubSeq(chunks[k - 1].lines,
                                     Len(chunks[k - 1].lines) - n + 1,
                                     Len(chunks[k - 1].lines))
                      /\ SumSeq(SubSeq(chunks[k].lines, 1, n)) >= Overlap

\* a long document in five chunks: the third begins with the two paragraphs
\* of the second, the last one of which is shorter than 200 characters
C17_Witness ==
    /\ Chunked(Document(LiveUrl(1), <<2000, 150, 2000, 900>>))
    /\ Len(unit.content_chunks) = 5
    /\ unit.content_chunks[2].lines = <<2000, 150>>
    /\ unit.content_chunks[3].lines = <<2000, 150, 2000>>
    /\ unit.content_chunks[5].lines = <<900>>

\* C18: safe_extract_json returns a record for every input text, also for a
\* text that is valid JSON but not an object.
C18_AlwaysARecord ==
    unit.fn = "safe_extract_json" => unit.returned.t = "record"

\* the text holds a JSON value somewhere
ContainsJson(ts) ==
    \E j \in 1..Len(ts) : \E k \in j..Len(ts) : Parsed(json_loads(SubSeq(ts, j, k)))

\* C19: for every record r, safe_extract_json on the serialized text of r
\* returns exactly r; on a text that contains no JSON it returns the empty
\* record.
C19_RoundTrip ==
    unit.fn = "safe_extract_json" =>
        /\ ~IsNone(unit.record) =>
              /\ unit.returned.t = "record"
              /\ unit.returned.f = Get(unit.record)
        /\ \/ unit.returned.t = "record" /\ unit.returned.empty
           \/ ContainsJson(unit.text)

\* a record that holds a record and an array is recovered from its text
C19_Witness ==
    /\ unit.fn = "safe_extract_json"
    /\ unit.record = Some(JObj(<<Member("b", JObj(<<Member("a", JScalar("num", "1"))>>)),
                                 Member("a", JArr(<<JScalar("str", "a"), JScalar("null", "null")>>))>>))
    /\ Len(unit.text) = 17
    /\ unit.returned.f = Get(unit.record)

\* C20: after the resolve node has run, the full_name of the entity is
\* non-empty, whatever the completion call returned.
C20_FullNameNonEmpty ==
    \A i \in Invocations :
        st[i].debug["entity_resolution"] # "none" =>
            /\ ~IsNone(st[i].entity)
            /\ Get(st[i].entity).full_name # NoName

\* C21: once the query generation node has run, neither the web queries nor
\* the news queries are empty, and news queries that the response did not
\* supply equal the web queries.
C21_QueriesNeverEmpty ==
    \A i \in Invocations :
        st[i].debug["query_generation"] # "none" =>
            /\ ~IsNone(st[i].queries)
            /\ Get(st[i].queries).web_queries # <<>>
            /\ Get(st[i].queries).news_queries # <<>>
            /\ \/ Get(st[i].queries).news_queries = Get(st[i].queries).web_queries
               \/ Get(st[i].queries).news_queries = LlmNews
               \/ client # "live"

\* the response of the live client held web queries only: the news queries
\* are the web queries
C21_Witness ==
    /\ client = "live"
    /\ st[1].debug["query_generation"] = "success"
    /\ Get(st[1].queries).web_queries = LlmWeb
    /\ Get(st[1].queries).news_queries = LlmWeb

\* invocation i is in the k-th stage
InStage(i, k) == pc[i] = StageOrder[k][1]

\* C22: the stages run in the order initialize, entity_resolution,
\* query_generation, search, scraping, chunking, analyzer, formatting: a stage
\* is entered only from its predecessor (the first one from the start of the
\* graph), is left only for its successor (the last one for the end of the
\* graph), the state changes only when a stage returns, and while a stage runs
\* no later stage has written its entry of the debug trail.
C22_StagesInOrder ==
    [][\A i \in Invocations :
          /\ \A k \in 1..Len(StageOrder) :
                /\ InStage(i, k) /\ pc'[i] # pc[i] =>
                      pc'[i] = (IF k < Len(StageOrder) THEN StageOrder[k + 1][1] ELSE "extract")
                /\ pc'[i] = StageOrder[k][1] /\ pc'[i] # pc[i] =>
                      pc[i] = (IF k > 1 THEN StageOrder[k - 1][1] ELSE "invoke")
                /\ InStage(i, k) =>
                      \A j \in k..Len(StageOrder) : st[i].debug[StageOrder[j][2]] = "none"
          /\ st'[i] # st[i] =>
                \E k \in 1..Len(StageOrder) : InStage(i, k) /\ pc'[i] # pc[i]]_vars

\* an invocation in which every stage has run
C22_Witness ==
    /\ pc[1] = "done"
    /\ \A k \in 1..Len(StageOrder) : st[1].debug[StageOrder[k][2]] # "none"

\* C23: when the error marker is set on entry to entity_resolution,
\* query_generation, search, scraping or chunking, the stage returns the state
\* as it is: no field differs after the stage.
C23_SkippedStageKeepsState ==
    [][\A i \in Invocations :
          /\ pc[i] \in {"entity_resolution", "query_generation", "search",
                        "scraping", "chunking"}
          /\ ~IsNone(st[i].error)
          /\ pc'[i] # pc[i]
          => st'[i] = st[i]]_vars

\* the five stages have been skipped after a failed initialization
C23_Witness ==
    /\ pc[1] = "analyzer"
    /\ ~IsNone(st[1].error)
    /\ st[1].debug["initialization"] = "failed"
    /\ \A stage \in {"entity_resolution", "query_generation", "search",
                     "scraping", "chunking"} : st[1].debug[stage] = "none"

\* the field of the state that the k-th stage produces
OwnField(k) ==
    <<"input", "entity", "queries", "search_results", "scraped_content",
      "content_chunks", "analysis", "report">>[k]

\* C24: a stage after initialization leaves every field of the state that is
\* produced by another stage as it is; in particular the analyzer leaves the
\* entity as entity_resolution produced it, and the input is not modified.
C24_StageWritesOwnFieldOnly ==
    [][\A i \in Invocations : \A k \in 2..Len(StageOrder) :
          InStage(i, k) /\ pc'[i] # pc[i] =>
              \A j \in 1..Len(StageOrder) :
                  j # k => st'[i][OwnField(j)] = st[i][OwnField(j)]]_vars

\* the findings of a type, in the order of the list
OfType(findings, type) == SelectSeq(findings, LAMBDA f : f.type = type)

\* C25: the description of a key concern is the description of a finding of
\* its type whose severity * confidence is the highest among the findings of
\* the type.
C25_ConcernDescribesHighest ==
    unit.fn = "key_concerns" =>
        \A k \in 1..Len(unit.key_concerns) :
            LET group == OfType(unit.all_findings, unit.key_concerns[k].type) IN
            \E g \in 1..Len(group) :
                /\ group[g].description = unit.key_concerns[k].description
                /\ \A h \in 1..Len(group) :
                      group[h].severity * group[h].confidence
                          <= group[g].severity * group[g].confidence

\* the sort key of a finding type: the number of its findings, the sum of
\* their severities times the sum of their confidences, and the place of its
\* first finding
TypeKey(findings, type) ==
    LET group == OfType(findings, type) IN
    [count |-> Len(group),
     product |-> SumSeq([k \in 1..Len(group) |-> group[k].severity])
                 * SumSeq([k \in 1..Len(group) |-> group[k].confidence]),
     first |-> CHOOSE k \in 1..Len(findings) :
                   findings[k].type = type /\ \A j \in 1..(k - 1) : findings[j].type # type]

\* the type with the key a comes before the type with the key b
ComesBefore(a, b) ==
    \/ a.count > b.count
    \/ a.count = b.count /\ a.product > b.product
    \/ a.count = b.count /\ a.product = b.product /\ a.first < b.first

\* C26: the key concerns are at most 5, one per finding type, ordered by
\* (count, summed severity * summed confidence) descending, types with equal
\* keys in the order of their first finding; the types left out come after
\* the types kept.
C26_KeyConcernsOrdered ==
    unit.fn = "key_concerns" =>
        LET types == {unit.all_findings[k].type : k \in 1..Len(unit.all_findings)}
            kept == {unit.key_concerns[k].type : k \in 1..Len(unit.key_concerns)}
        IN /\ Len(unit.key_concerns) = Min(5, Cardinality(types))
           /\ kept \subseteq types
           /\ \A j, k \in 1..Len(unit.key_concerns) :
                 j < k => ComesBefore(TypeKey(unit.all_findings, unit.key_concerns[j].type),
                                      TypeKey(unit.all_findings, unit.key_concerns[k].type))
           /\ \A type \in types \ kept : \A k \in 1..Len(unit.key_concerns) :
                 ComesBefore(TypeKey(unit.all_findings, unit.key_concerns[k].type),
                             TypeKey(unit.all_findings, type))

\* seven types, four of them with the same key: five are kept, the first
\* three of the four in the order of their first findings
C26_Witness ==
    /\ unit.fn = "key_concerns"
    /\ unit.all_findings = MoreFindings \o <<F1, F2, Finding("Legal", "d4", 7, 6)>>
    /\ [k \in 1..Len(unit.key_concerns) |-> unit.key_concerns[k].type]
          = <<"Harassment", "Scandal", "Sanctions", "Lawsuit", "Fraud">>

\* C27: from a text that is a record between two sentences, without a fenced
\* block, safe_extract_json recovers the whole record, also when the record
\* holds records.
C27_BalancedBraces ==
    unit.fn = "safe_extract_json" /\ Len(unit.text) >= 3 =>
        LET embedded == json_loads(SubSeq(unit.text, 2, Len(unit.text) - 1)) IN
        /\ unit.text[1] = Tok("word", "prose")
        /\ unit.text[Len(unit.text)] = Tok("word", "prose")
        /\ embedded.t = "record"
        => unit.returned = embedded

\* the entity under another name
Renamed(entity, name) == [entity EXCEPT !.full_name = name, !.name = name]

\* the verdict of an analysis
Verdict(analysis) ==
    <<analysis.findings, analysis.has_negative_news, analysis.risk_score>>

\* C28: the analyzer's verdict (findings, has_negative_news, risk_score) does
\* not depend on the entity's name: whatever the completion service answers,
\* the analysis of the same chunks under any other name has the same verdict,
\* and without findings the verdict is the clean negative one.
C28_VerdictIndependentOfName ==
    [][\A i \in Invocations :
          /\ pc[i] = "analyzer" /\ pc'[i] = "formatting"
          /\ ~IsNone(st[i].entity) /\ ~IsNone(st[i].content_chunks)
          => \A analyst \in Analysts :
                st'[i] = analysis_node(st[i], client, envDummy, analyst) =>
                   \A name \in Names :
                      Verdict(analyze_content(Get(st[i].content_chunks),
                                              Some(Renamed(Get(st[i].entity), name)),
                                              client, envDummy, analyst).analysis)
                        = Verdict(Get(st'[i].analysis))]_vars

\* the first n lines of the later chunk are the last n lines of the earlier
\* one
CarriedOver(earlier, later, n) ==
    /\ n <= Len(later.lines) /\ n <= Len(earlier.lines)
    /\ SubSeq(later.lines, 1, n)
          = SubSeq(earlier.lines, Len(earlier.lines) - n + 1, Len(earlier.lines))

\* the lines of the chunk after its first n lines
After(chunk, n) == SubSeq(chunk.lines, n + 1, Len(chunk.lines))

\* C29: a document whose body is 43 paragraphs of 100 characters is split
\* into exactly 3 chunks, and the 2nd and the 3rd chunk each begin with at
\* least 200 characters carried over from the tail of the chunk before; what
\* follows the carried-over lines continues the document where the chunk
\* before ended.
C29_ScenarioThreeChunks ==
    unit.fn = "chunk_content" =>
        LET doc == unit.scraped_content[1]
            chunks == ChunksOf(unit.content_chunks, doc.url)
        IN Paragraphs(doc.content) = [k \in 1..43 |-> 100] =>
              /\ Len(chunks) = 3
              /\ \E n2, n3 \in 1..43 :
                    /\ CarriedOver(chunks[1], chunks[2], n2)
                    /\ CarriedOver(chunks[2], chunks[3], n3)
                    /\ SumSeq(SubSeq(chunks[2].lines, 1, n2)) >= Overlap
                    /\ SumSeq(SubSeq(chunks[3].lines, 1, n3)) >= Overlap
                    /\ chunks[1].lines \o After(chunks[2], n2) \o After(chunks[3], n3)
                          = Paragraphs(doc.content)

\* the page of 43 lines: chunks of 20, 20 and 7 paragraphs
C29_Witness ==
    /\ Chunked(Document(LiveUrl(1), [k \in 1..43 |-> 100]))
    /\ Len(unit.content_chunks) = 3
    /\ Len(unit.content_chunks[1].lines) = 20
    /\ Len(unit.content_chunks[2].lines) = 20
    /\ Len(unit.content_chunks[3].lines) = 7

\* The chunks from the k-th on continue the paragraphs that remain, each
\* beginning with lines carried over from the chunk before it (none for the
\* first chunk) that are followed by at least one of the remaining paragraphs.
RECURSIVE EachAddsText(_, _, _)
EachAddsText(chunks, k, remaining) ==
    IF k > Len(chunks) THEN remaining = <<>>
    ELSE \E n \in (IF k = 1 THEN {0} ELSE 0..(Len(chunks[k].lines) - 1)) :
            LET added == After(chunks[k], n) IN
            /\ k > 1 => CarriedOver(chunks[k - 1], chunks[k], n)
            /\ Len(added) >= 1 /\ Len(added) <= Len(remaining)
            /\ added = SubSeq(remaining, 1, Len(added))
            /\ EachAddsText(chunks, k + 1,
                            SubSeq(remaining, Len(added) + 1, Len(remaining)))

\* C30: for every document split into several chunks, each chunk after the
\* first contains at least one paragraph that the preceding chunk does not
\* contain: no chunk, the final flushed chunk included, consists only of
\* text carried over from the chunk before.
C30_NoChunkOnlyOverlap ==
    unit.fn = "chunk_content" =>
        LET doc == unit.scraped_content[1]
            chunks == ChunksOf(unit.content_chunks, doc.url)
        IN Len(chunks) >= 2 => EachAddsText(chunks, 1, Paragraphs(doc.content))

====
